---- MODULE Spec2Model ----
(***************************************************************************)
(* Model of pg_logical_replication: LogicalReplicationClient (client.py)   *)
(* and the wal2json decoder Wal2JsonOutput.from_dict (models.py).          *)
(*                                                                         *)
(* One caller thread issues start/stop; every start launches a worker      *)
(* thread running _replication_worker.  The worker is modelled statement   *)
(* by statement (pc), because start/stop and other workers interleave with *)
(* it and share self._running and self._replication_conn.                  *)
(*                                                                         *)
(* create_slot is modelled statement by statement as well (spc), for       *)
(* several clients that share the server's slot registry.                  *)
(*                                                                         *)
(* Specifications: Spec (a caller that starts the pump several times),     *)
(* SpecPump (one start), SpecSlot (create_slot and one start), SpecRace    *)
(* (create_slot of several clients), SpecDecode (from_dict on its inputs). *)
(***************************************************************************)
EXTENDS Integers, Sequences, FiniteSets, TLC

\* ------------------------------------------------------------------ bounds
MaxWorkers == 2      \* number of start() calls explored
MaxPos == 2          \* log positions delivered by the server are 1..MaxPos
MaxClients == 2      \* clients that call create_slot for the same slot name
MaxCalls == 2        \* create_slot calls made by the first client

Workers == 1..MaxWorkers
Positions == 1..MaxPos
Clients == 1..MaxClients

\* The client whose pump (start, stop, worker threads) is modelled.
Self == 1

\* ------------------------------------------------- models.py: the decoder
None == [none |-> TRUE]

\* dict.get(key, default)
Get(d, k, default) == IF k \in DOMAIN d THEN d[k] ELSE default

EmptyDict == [k \in {} |-> None]

\* (A slip: no fallback to the old-key arrays.)
OldKeyDefault_Empty(change, key) == <<>>

\* change.get("oldkeys", {}).get(key, [])  -- evaluated eagerly as the
\* default argument of the outer get, so it is computed even when the
\* top-level array is present.
OldKeyDefault(change, key) == Get(Get(change, "oldkeys", EmptyDict), key, <<>>)

\* The expressions of one Wal2JsonChange(...) construction raise when a
\* subscripted key is missing (KeyError) or when oldkeys is null, because
\* None has no .get (AttributeError).
ChangeRaises(change) ==
    \/ "kind" \notin DOMAIN change
    \/ "schema" \notin DOMAIN change
    \/ "table" \notin DOMAIN change
    \/ ("oldkeys" \in DOMAIN change /\ change["oldkeys"] = None)

Wal2JsonChange(change) ==
    [kind         |-> change["kind"],
     schema       |-> change["schema"],
     table        |-> change["table"],
     columnnames  |-> Get(change, "columnnames", OldKeyDefault(change, "keynames")),
     columntypes  |-> Get(change, "columntypes", OldKeyDefault(change, "keytypes")),
     columnvalues |-> Get(change, "columnvalues", OldKeyDefault(change, "keyvalues")),
     oldkeys      |-> Get(change, "oldkeys", None)]

\* Wal2JsonOutput.from_dict: [ok |-> FALSE] stands for a raised
\* KeyError/AttributeError (never a JSONDecodeError).
from_dict(data) ==
    IF "change" \notin DOMAIN data
    THEN [ok |-> FALSE, change |-> <<>>]
    ELSE LET changes == data["change"] IN
         IF \E i \in DOMAIN changes : ChangeRaises(changes[i])
         THEN [ok |-> FALSE, change |-> <<>>]
         ELSE [ok |-> TRUE,
               change |-> [i \in DOMAIN changes |-> Wal2JsonChange(changes[i])]]

\* ------------------------------------------------ the payloads of the model
InsertChange ==
    [kind |-> "insert", schema |-> "public", table |-> "users",
     columnnames |-> <<"id">>, columntypes |-> <<"bigint">>,
     columnvalues |-> <<1>>]

DeleteChange ==
    [kind |-> "delete", schema |-> "public", table |-> "users",
     oldkeys |-> [keynames |-> <<"id">>, keytypes |-> <<"bigint">>,
                  keyvalues |-> <<1>>]]

NoKindChange == [schema |-> "public", table |-> "users"]

\* msg.payload is text.  The texts the server of the model can deliver:
PEmpty    == ""                      \* keepalive: falsy payload
PNotJson  == "not json"              \* json.loads raises JSONDecodeError
PNoChange == "{other}"               \* valid JSON, no "change" key
PNoKind   == "{change:[nokind]}"     \* a change object lacking kind
PValid    == "{change:[insert,delete]}"

Payloads == {PEmpty, PNotJson, PNoChange, PNoKind, PValid}

\* json.loads on the texts above.
json_loads(data) ==
    CASE data = PNotJson  -> [ok |-> FALSE, val |-> EmptyDict]
      [] data = PNoChange -> [ok |-> TRUE, val |-> [other |-> 1]]
      [] data = PNoKind   -> [ok |-> TRUE, val |-> [change |-> <<InsertChange, NoKindChange>>]]
      [] data = PValid    -> [ok |-> TRUE, val |-> [change |-> <<InsertChange, DeleteChange>>]]
      [] OTHER            -> [ok |-> FALSE, val |-> EmptyDict]

\* ------------------------------------------------------------------- state
VARIABLES
    running,           \* self._running
    thread,            \* self._thread: 0 is None, else the worker it names
    callback,          \* self._callback: "none" or "fn"
    replication_conn,  \* self._replication_conn: 0 is None, else a session
    caller,            \* the caller thread: "idle", or "joining" inside stop()
    pc,                \* pc[w]: the statement worker w is at
    wcb,               \* wcb[w]: the callback argument of worker w
    cur,               \* cur[w]: the session worker w's cursor belongs to
    msg,               \* msg[w]: the message worker w is processing
    session,           \* session[s]: the connection opened by worker s
    stream,            \* stream[s]: last position the server sent on s
    hist,              \* hist[w]: history of worker w's loop (lowest position
                       \*   of a message that failed to decode, last feedback)
    idleStop,          \* history: stop() is waiting, found the worker
                       \*   polling, and no message has arrived since
    starts,            \* number of start() calls the caller still makes
    spc,               \* spc[c]: the statement of create_slot client c is at
    conn,              \* conn[c]: self._conn of client c: 0 is None, 1 the
                       \*   administrative connection of the current call
    admin,             \* admin[c]: that connection: state, number of closes
    start_lsn,         \* start_lsn[c]: self._start_lsn of client c
    slot,              \* the server's registry row of the slot name
    calls,             \* calls[c]: create_slot calls client c still makes
    shist,             \* shist[c]: history of client c's create_slot calls
    decoded            \* a change object and what from_dict made of it

slotVars == <<spc, conn, admin, start_lsn, slot, calls, shist>>

pumpVars == <<running, thread, callback, replication_conn, caller, pc, wcb,
              cur, msg, session, stream, hist, idleStop, starts>>

vars == <<running, thread, callback, replication_conn, caller, pc, wcb, cur,
          msg, session, stream, hist, idleStop, starts, slotVars, decoded>>

\* No message in hand.  Beside msg.data_start (pos) and msg.payload, a
\* message carries its history: the callback call made for it (cb: "none",
\* "inflight", "returned", "raised"; its arguments; ncb calls), the feedback
\* sent for it (fb, nfb; fbfault when send_feedback raised), the
\* position of the worker's previous feedback, and whether stop() cleared
\* the running flag while its callback was in flight (cancelled).
NoMsg == [pos |-> 0, payload |-> PEmpty, cb |-> "none", cbpos |-> 0,
          cbchange |-> <<>>, ncb |-> 0, fb |-> <<>>, nfb |-> 0,
          fbfault |-> FALSE, prevfb |-> 0, cancelled |-> FALSE]

NoHist == [failpos |-> 0, lastfb |-> <<0, 0, 0>>]

\* Calls whose duration nothing bounds: join(timeout=5) can time out only
\* while the worker is inside one of them.  Every other worker step takes
\* at most the 0.1 sleep of the loop.
SlowOps == {"connect", "start_replication", "callback", "send_feedback"}

\* self._start_lsn = None, client.py 29: no start position.
NoLsn == -1

\* No administrative connection yet.
NoAdmin == [st |-> "none", closes |-> 0]

\* The registry has no row for the slot name.
NoSlot == [exists |-> FALSE, lsn |-> <<0, 0>>, creations |-> 0]

\* The positions "hi/lo" (two hexadecimal numbers) the server can report in
\* slot_info[1], as the pair of numbers the text denotes.
SlotLsns == {<<0, 1>>, <<1, 0>>}

\* The history of a client's create_slot calls: ncalls calls have ended,
\* the last of them with outcome ("returned" or "raised"); nreq creation
\* requests were issued in all; first and found are what the SELECT of the
\* first and of the most recent call found ("row", "norow"); req and
\* created tell whether the most recent call issued a creation request and
\* whether that request created the slot; err is the error the most recent
\* call met ("exists": the slot already exists; "other") and swallowed
\* tells whether its handler swallowed it; fault tells whether any call
\* raised; opened counts the connections the most recent call opened.
NoCalls == [ncalls |-> 0, outcome |-> "none", nreq |-> 0, first |-> "none",
            found |-> "none", req |-> FALSE, created |-> FALSE,
            err |-> "none", swallowed |-> FALSE, fault |-> FALSE,
            opened |-> 0]

\* Nothing is being decoded.
NoDecode == [input |-> <<>>, done |-> FALSE, out |-> from_dict([change |-> <<>>])]

\* The statements of the while loop, client.py 88-125.
InLoop == {"loop", "read", "process", "callback", "send_feedback", "except"}

\* A thread that was started and has not finished.
Alive(w) == pc[w] \notin {"unstarted", "done"}

\* The client after __init__, client.py 13-29, with a caller that is going
\* to call start() at most n times.
InitClient(n) ==
    /\ starts = n
    /\ running = FALSE
    /\ thread = 0
    /\ callback = "none"
    /\ replication_conn = 0
    /\ caller = "idle"
    /\ pc = [w \in Workers |-> "unstarted"]
    /\ wcb = [w \in Workers |-> "none"]
    /\ cur = [w \in Workers |-> 0]
    /\ msg = [w \in Workers |-> NoMsg]
    /\ session = [s \in Workers |-> [st |-> "none", closes |-> 0, foreign |-> FALSE,
                                     from |-> NoLsn, resumed |-> FALSE]]
    /\ stream = [s \in Workers |-> 0]
    /\ hist = [w \in Workers |-> NoHist]
    /\ idleStop = FALSE

\* self._conn and self._start_lsn after __init__, client.py 24 and 29, for
\* every client, the first of which is going to call create_slot n times
\* and the others once if they race it; the slot may be registered from an
\* earlier run.
InitSlots(n, racing) ==
    /\ spc = [c \in Clients |-> "idle"]
    /\ conn = [c \in Clients |-> 0]
    /\ admin = [c \in Clients |-> NoAdmin]
    /\ start_lsn = [c \in Clients |-> NoLsn]
    /\ calls = [c \in Clients |-> IF c = Self THEN n ELSE IF racing THEN 1 ELSE 0]
    /\ shist = [c \in Clients |-> NoCalls]
    /\ slot \in IF n = 0 THEN {NoSlot}
                ELSE {NoSlot} \cup {[exists |-> TRUE, lsn |-> l, creations |-> 0] :
                                       l \in SlotLsns}

Init == InitClient(MaxWorkers) /\ InitSlots(0, FALSE) /\ decoded = NoDecode

\* A caller that starts the pump once.
InitPump == InitClient(1) /\ InitSlots(0, FALSE) /\ decoded = NoDecode

\* A caller that calls create_slot and starts the pump once.
InitSlot == InitClient(1) /\ InitSlots(MaxCalls, FALSE) /\ decoded = NoDecode

\* Clients that call create_slot for the same slot name; no pump.
InitRace == InitClient(0) /\ InitSlots(MaxCalls, TRUE) /\ decoded = NoDecode

\* ------------------------------------------------------------ start / stop
\* start(callback), client.py 135-146.  Nothing guards a second start.
Start(cb) ==
    /\ caller = "idle"
    /\ spc[Self] = "idle"
    /\ starts > 0
    /\ starts' = starts - 1
    /\ \E w \in Workers :
        /\ pc[w] = "unstarted"
        /\ \A v \in Workers : v < w => pc[v] # "unstarted"
        /\ callback' = cb
        /\ running' = TRUE
        /\ thread' = w
        /\ pc' = [pc EXCEPT ![w] = "connect"]
        /\ wcb' = [wcb EXCEPT ![w] = cb]
    /\ UNCHANGED <<replication_conn, caller, cur, msg, session, stream, hist,
                   idleStop>>
    /\ UNCHANGED <<slotVars, decoded>>

\* stop(), client.py 148-153, up to the join: clears the flag; without a
\* thread handle it returns at once.
Stop ==
    /\ caller = "idle"
    /\ spc[Self] = "idle"
    /\ running' = FALSE
    /\ IF thread = 0
       THEN UNCHANGED <<caller, idleStop>>
       ELSE /\ caller' = "joining"
            /\ idleStop' = (pc[thread] \in {"loop", "read"})
    /\ msg' = [w \in Workers |->
                  IF pc[w] = "callback" THEN [msg[w] EXCEPT !.cancelled = TRUE]
                  ELSE msg[w]]
    /\ UNCHANGED <<thread, callback, replication_conn, pc, wcb, cur,
                   session, stream, hist, starts>>
    /\ UNCHANGED <<slotVars, decoded>>

\* (A slip: stop() does not wait for the thread.)
JoinDone_NoWait(w) == TRUE

\* join(timeout=5) returns when the thread has finished ...
JoinDone(w) == pc[w] = "done"

\* ... or when the bounded wait has elapsed.
JoinTimedOut(w) == pc[w] \in SlowOps

\* stop() after the join, client.py 152-153: the thread has finished.
StopJoined ==
    /\ caller = "joining"
    /\ JoinDone(thread)
    /\ thread' = 0
    /\ caller' = "idle"
    /\ idleStop' = FALSE
    /\ UNCHANGED <<running, callback, replication_conn, pc, wcb, cur, msg,
                   session, stream, hist, starts>>
    /\ UNCHANGED <<slotVars, decoded>>

\* stop() after the join, client.py 152-153: the wait has timed out.
StopTimeout ==
    /\ caller = "joining"
    /\ JoinTimedOut(thread)
    /\ thread' = 0
    /\ caller' = "idle"
    /\ idleStop' = FALSE
    /\ UNCHANGED <<running, callback, replication_conn, pc, wcb, cur, msg,
                   session, stream, hist, starts>>
    /\ UNCHANGED <<slotVars, decoded>>

\* ------------------------------------------------- _replication_worker
Goto(w, label) == pc' = [pc EXCEPT ![w] = label]

\* The loop is left for the finally clause (break, a false flag, or an
\* exception of read_message re-raised at 127-129); the history of the
\* loop's messages ends here.
Leave(w) ==
    /\ pc' = [pc EXCEPT ![w] = "finally"]
    /\ msg' = [msg EXCEPT ![w] = NoMsg]
    /\ hist' = [hist EXCEPT ![w] = NoHist]

\* The thread ends: its cursor is gone.
Exit(w) ==
    /\ pc' = [pc EXCEPT ![w] = "done"]
    /\ cur' = [cur EXCEPT ![w] = 0]

SessionOpen(s) == s # 0 /\ session[s].st = "open"

\* The lowest position of a message that failed to decode.
NoteFailure(w) ==
    hist' = [hist EXCEPT ![w].failpos =
                IF @ = 0 \/ msg[w].pos < @ THEN msg[w].pos ELSE @]

\* psycopg2.connect(...), client.py 67-70: the new connection is stored in
\* the attribute shared by all workers.  A failure is fatal: 127-133.
Connect(w) ==
    /\ pc[w] = "connect"
    /\ \/ /\ session' = [session EXCEPT ![w].st = "open"]
          /\ replication_conn' = w
          /\ Goto(w, "cursor")
       \/ /\ Goto(w, "finally")
          /\ UNCHANGED <<session, replication_conn>>
    /\ UNCHANGED <<running, thread, callback, caller, wcb, cur, msg, stream,
                   hist, idleStop, starts>>
    /\ UNCHANGED <<slotVars, decoded>>

\* with self._replication_conn.cursor() as cur, client.py 73: the attribute
\* is read again; None has no cursor() and a closed connection gives none.
Cursor(w) ==
    /\ pc[w] = "cursor"
    /\ IF SessionOpen(replication_conn)
       THEN /\ cur' = [cur EXCEPT ![w] = replication_conn]
            /\ Goto(w, "start_replication")
       ELSE /\ Goto(w, "finally")
            /\ UNCHANGED cur
    /\ UNCHANGED <<running, thread, callback, replication_conn, caller, wcb,
                   msg, session, stream, hist, idleStop, starts>>
    /\ UNCHANGED <<slotVars, decoded>>

\* The most recent create_slot call of the client has ended and found the
\* slot registered.
FoundRegistered(c) == spc[c] = "idle" /\ shist[c].found = "row"

\* cur.start_replication(..., start_lsn=self._start_lsn), client.py 80-86:
\* the stream is opened from the start position the client holds, if any.
StartReplication(w) ==
    /\ pc[w] = "start_replication"
    /\ \/ /\ SessionOpen(cur[w])
          /\ session' = [session EXCEPT ![cur[w]].from = start_lsn[Self],
                                        ![cur[w]].resumed = FoundRegistered(Self)]
          /\ Goto(w, "loop")
       \/ /\ Goto(w, "finally")
          /\ UNCHANGED session
    /\ UNCHANGED <<running, thread, callback, replication_conn, caller, wcb,
                   cur, msg, stream, hist, idleStop, starts>>
    /\ UNCHANGED <<slotVars, decoded>>

\* while self._running, client.py 88.  The message of the previous
\* iteration is gone.
LoopCheck(w) ==
    /\ pc[w] = "loop"
    /\ IF running
       THEN /\ Goto(w, "read")
            /\ msg' = [msg EXCEPT ![w] = NoMsg]
            /\ UNCHANGED hist
       ELSE Leave(w)
    /\ UNCHANGED <<running, thread, callback, replication_conn, caller, wcb,
                   cur, session, stream, idleStop, starts>>
    /\ UNCHANGED <<slotVars, decoded>>

\* msg = cur.read_message(), client.py 89-93.  The server sends positions
\* that never decrease within a session.  None: sleep and continue.  An
\* exception here is outside the inner try and ends the worker.
ReadMessage(w) ==
    /\ pc[w] = "read"
    /\ \/ /\ SessionOpen(cur[w])
          /\ Goto(w, "loop")
          /\ UNCHANGED <<msg, stream, hist, idleStop>>
       \/ /\ SessionOpen(cur[w])
          /\ \E p \in Positions, data \in Payloads :
                /\ p >= stream[cur[w]]
                /\ stream' = [stream EXCEPT ![cur[w]] = p]
                /\ msg' = [msg EXCEPT ![w] =
                              [NoMsg EXCEPT !.pos = p, !.payload = data,
                                            !.prevfb = hist[w].lastfb[2]]]
          /\ idleStop' = (idleStop /\ thread # w)
          /\ Goto(w, "process")
          /\ UNCHANGED hist
       \/ /\ Leave(w)
          /\ UNCHANGED <<stream, idleStop>>
    /\ UNCHANGED <<running, thread, callback, replication_conn, caller, wcb,
                   cur, session, starts>>
    /\ UNCHANGED <<slotVars, decoded>>

\* (A slip: a message with an empty payload is acknowledged.)
AfterDecode_AckEmpty(payload, cb) ==
    IF payload = PEmpty THEN "send_feedback"
    ELSE IF ~json_loads(payload).ok THEN "loop"
    ELSE IF ~from_dict(json_loads(payload).val).ok THEN "except"
    ELSE IF cb # "none" THEN "callback"
    ELSE "send_feedback"

\* (A slip: a payload that is not JSON is skipped and acknowledged.)
AfterDecode_AckBad(payload, cb) ==
    IF payload = PEmpty THEN "loop"
    ELSE IF ~json_loads(payload).ok THEN "send_feedback"
    ELSE IF ~from_dict(json_loads(payload).val).ok THEN "except"
    ELSE IF cb # "none" THEN "callback"
    ELSE "send_feedback"

\* Where control goes after the decode of client.py 96-109, 118-119.
AfterDecode(payload, cb) ==
    IF payload = PEmpty THEN "loop"                       \* 118-119
    ELSE IF ~json_loads(payload).ok THEN "loop"           \* 106-108 continue
    ELSE IF ~from_dict(json_loads(payload).val).ok THEN "except"   \* 121
    ELSE IF cb # "none" THEN "callback"                   \* 104-105
    ELSE "send_feedback"                                  \* 110-117

\* (A slip: the callback is given the position of the previous feedback.)
CallbackArgs_Stale(m) ==
    [pos |-> m.prevfb, change |-> from_dict(json_loads(m.payload).val).change]

\* The arguments of callback(msg.data_start, wal_output), client.py 105.
CallbackArgs(m) ==
    [pos |-> m.pos, change |-> from_dict(json_loads(m.payload).val).change]

\* client.py 95-105: payload test, json.loads, from_dict, callback call.
Process(w) ==
    /\ pc[w] = "process"
    /\ LET next == AfterDecode(msg[w].payload, wcb[w])
       IN /\ Goto(w, next)
          /\ IF next = "callback"
             THEN /\ msg' = [msg EXCEPT ![w].cb = "inflight",
                                        ![w].cbpos = CallbackArgs(msg[w]).pos,
                                        ![w].cbchange = CallbackArgs(msg[w]).change,
                                        ![w].ncb = @ + 1]
                  /\ UNCHANGED hist
             ELSE /\ UNCHANGED msg
                  /\ IF msg[w].payload # PEmpty /\ next \in {"loop", "except"}
                     THEN NoteFailure(w)
                     ELSE UNCHANGED hist
    /\ UNCHANGED <<running, thread, callback, replication_conn, caller, wcb,
                   cur, session, stream, idleStop, starts>>
    /\ UNCHANGED <<slotVars, decoded>>

\* (A slip: an exception of the callback is swallowed before the feedback.)
AfterCallback_Swallow(outcome) ==
    CASE outcome = "raised_json" -> "loop"
      [] OTHER -> "send_feedback"

\* Where control goes when the callback ends: normally, with an exception
\* (121), or with a JSONDecodeError of its own (106-108).
AfterCallback(outcome) ==
    CASE outcome = "returned" -> "send_feedback"
      [] outcome = "raised" -> "except"
      [] outcome = "raised_json" -> "loop"

\* The callback of client.py 105 ends.
CallbackReturn(w) ==
    /\ pc[w] = "callback"
    /\ \E outcome \in {"returned", "raised", "raised_json"} :
        /\ msg' = [msg EXCEPT ![w].cb = IF outcome = "returned" THEN "returned" ELSE "raised"]
        /\ Goto(w, AfterCallback(outcome))
    /\ UNCHANGED <<running, thread, callback, replication_conn, caller, wcb,
                   cur, session, stream, hist, idleStop, starts>>
    /\ UNCHANGED <<slotVars, decoded>>

\* (A slip: the apply position is left out of the feedback.)
Feedback_NoApply(m) == <<m.pos, m.pos, 0>>

\* The write, flush and apply positions of cur.send_feedback(...),
\* client.py 112-117.
Feedback(m) == <<m.pos, m.pos, m.pos>>

\* cur.send_feedback(...): sent, or a fault caught at 121.
SendFeedback(w) ==
    /\ pc[w] = "send_feedback"
    /\ \/ /\ SessionOpen(cur[w])
          /\ msg' = [msg EXCEPT ![w].fb = Feedback(msg[w]), ![w].nfb = @ + 1]
          /\ hist' = [hist EXCEPT ![w].lastfb = Feedback(msg[w])]
          /\ Goto(w, "loop")
       \/ /\ Goto(w, "except")
          /\ msg' = [msg EXCEPT ![w].fbfault = TRUE]
          /\ UNCHANGED hist
    /\ UNCHANGED <<running, thread, callback, replication_conn, caller, wcb,
                   cur, session, stream, idleStop, starts>>
    /\ UNCHANGED <<slotVars, decoded>>

\* Where control goes from except Exception, client.py 121-125: break when
\* the flag is false, else sleep and go on.
AfterError(flag) == IF ~flag THEN "finally" ELSE "loop"

HandleError(w) ==
    /\ pc[w] = "except"
    /\ IF AfterError(running) = "finally"
       THEN Leave(w)
       ELSE Goto(w, "loop") /\ UNCHANGED <<msg, hist>>
    /\ UNCHANGED <<running, thread, callback, replication_conn, caller, wcb,
                   cur, session, stream, idleStop, starts>>
    /\ UNCHANGED <<slotVars, decoded>>

\* finally: if self._replication_conn, client.py 130-131.
Finally(w) ==
    /\ pc[w] = "finally"
    /\ IF replication_conn # 0
       THEN Goto(w, "close") /\ UNCHANGED cur
       ELSE Exit(w)
    /\ UNCHANGED <<running, thread, callback, replication_conn, caller, wcb,
                   msg, session, stream, hist, idleStop, starts>>
    /\ UNCHANGED <<slotVars, decoded>>

\* self._replication_conn.close(), client.py 132: the attribute is read
\* again; it names the connection that is closed, whoever opened it.  When
\* another worker has cleared it meanwhile, None.close() ends the thread.
Close(w) ==
    /\ pc[w] = "close"
    /\ IF replication_conn = 0
       THEN /\ Exit(w)
            /\ UNCHANGED <<session, stream>>
       ELSE /\ session' = [session EXCEPT
                  ![replication_conn].st = "closed",
                  ![replication_conn].closes = IF @ < 2 THEN @ + 1 ELSE @,
                  ![replication_conn].foreign = @ \/ replication_conn # w]
            /\ stream' = [stream EXCEPT ![replication_conn] = 0]
            /\ Goto(w, "clear")
            /\ UNCHANGED cur
    /\ UNCHANGED <<running, thread, callback, replication_conn, caller, wcb,
                   msg, hist, idleStop, starts>>
    /\ UNCHANGED <<slotVars, decoded>>

\* self._replication_conn = None, client.py 133; the thread ends.
Clear(w) ==
    /\ pc[w] = "clear"
    /\ replication_conn' = 0
    /\ Exit(w)
    /\ UNCHANGED <<running, thread, callback, caller, wcb, msg, session,
                   stream, hist, idleStop, starts>>
    /\ UNCHANGED <<slotVars, decoded>>

Worker(w) ==
    \/ Connect(w) \/ Cursor(w) \/ StartReplication(w) \/ LoopCheck(w)
    \/ ReadMessage(w) \/ Process(w) \/ CallbackReturn(w) \/ SendFeedback(w)
    \/ HandleError(w) \/ Finally(w) \/ Close(w) \/ Clear(w)

Next ==
    \/ \E cb \in {"none", "fn"} : Start(cb)
    \/ Stop
    \/ StopJoined
    \/ StopTimeout
    \/ \E w \in Workers : Worker(w)

Spec == Init /\ [][Next]_vars

SpecPump == InitPump /\ [][Next]_vars

\* ------------------------------------------------------------ create_slot
\* The caller thread of a client is free to call create_slot.
CallerFree(c) == c = Self => caller = "idle"

\* The history of a call that begins.
Begun(h, opened, err) ==
    [h EXCEPT !.found = "none", !.req = FALSE, !.created = FALSE,
              !.err = err, !.swallowed = FALSE, !.opened = opened]

\* create_slot has ended: the call is counted with its outcome.
Ended(c, h, outcome) ==
    /\ spc' = [spc EXCEPT ![c] = "idle"]
    /\ calls' = [calls EXCEPT ![c] = @ - 1]
    /\ shist' = [shist EXCEPT ![c] =
                    [h EXCEPT !.ncalls = @ + 1, !.outcome = outcome,
                              !.fault = @ \/ outcome = "raised"]]

\* self._conn = psycopg2.connect(self.dsn), client.py 33.  A failure is
\* raised before the try: nothing is assigned and nothing is closed.
SlotConnect(c) ==
    /\ spc[c] = "idle"
    /\ calls[c] > 0
    /\ CallerFree(c)
    /\ \/ /\ conn' = [conn EXCEPT ![c] = 1]
          /\ admin' = [admin EXCEPT ![c] = [st |-> "open", closes |-> 0]]
          /\ spc' = [spc EXCEPT ![c] = "select"]
          /\ shist' = [shist EXCEPT ![c] = Begun(@, 1, "none")]
          /\ UNCHANGED calls
       \/ /\ Ended(c, Begun(shist[c], 0, "other"), "raised")
          /\ UNCHANGED <<conn, admin>>
    /\ UNCHANGED <<start_lsn, slot>>
    /\ UNCHANGED <<pumpVars, decoded>>

\* (A slip: the result of the registry query is taken to be empty.)
RowFound_Never(registry) == FALSE

\* result = cur.fetchall() is not empty, client.py 41-43.
RowFound(registry) == registry.exists

\* The registry query and "if not result", client.py 36-43, 53-54.
SlotSelect(c) ==
    /\ spc[c] = "select"
    /\ \/ LET found == IF RowFound(slot) THEN "row" ELSE "norow" IN
          /\ shist' = [shist EXCEPT ![c].found = found,
                                    ![c].first = IF @ = "none" THEN found ELSE @]
          /\ spc' = [spc EXCEPT ![c] = IF RowFound(slot) THEN "finally" ELSE "create"]
       \/ /\ shist' = [shist EXCEPT ![c].err = "other"]
          /\ spc' = [spc EXCEPT ![c] = "except"]
    /\ UNCHANGED <<conn, admin, start_lsn, slot, calls>>
    /\ UNCHANGED <<pumpVars, decoded>>

\* The creation request, client.py 45-48: the server creates the slot and
\* reports its position, or refuses because the slot already exists, or
\* fails otherwise.
SlotCreate(c) ==
    /\ spc[c] = "create"
    /\ \/ /\ ~slot.exists
          /\ \E l \in SlotLsns :
                slot' = [exists |-> TRUE, lsn |-> l, creations |-> slot.creations + 1]
          /\ shist' = [shist EXCEPT ![c].nreq = @ + 1, ![c].req = TRUE,
                                    ![c].created = TRUE]
          /\ spc' = [spc EXCEPT ![c] = "parse"]
       \/ /\ slot.exists
          /\ shist' = [shist EXCEPT ![c].nreq = @ + 1, ![c].req = TRUE,
                                    ![c].err = "exists"]
          /\ spc' = [spc EXCEPT ![c] = "except"]
          /\ UNCHANGED slot
       \/ /\ shist' = [shist EXCEPT ![c].nreq = @ + 1, ![c].req = TRUE,
                                    ![c].err = "other"]
          /\ spc' = [spc EXCEPT ![c] = "except"]
          /\ UNCHANGED slot
    /\ UNCHANGED <<conn, admin, start_lsn, calls>>
    /\ UNCHANGED <<pumpVars, decoded>>

\* (int(lsn_parts[0], 16) << 32) | int(lsn_parts[1], 16), client.py 51-52,
\* on the pair of numbers the two hexadecimal parts denote.  The model's
\* integers have 32 bits, so a half of the position has 16 bits here
\* instead of 32; the low part is below 2^16, so the "or" is a sum.
ParseLsn(info) == info[1] * (2^16) + info[2]

\* self._start_lsn = ..., client.py 51-52.
SlotParse(c) ==
    /\ spc[c] = "parse"
    /\ start_lsn' = [start_lsn EXCEPT ![c] = ParseLsn(slot.lsn)]
    /\ spc' = [spc EXCEPT ![c] = "finally"]
    /\ UNCHANGED <<conn, admin, slot, calls, shist>>
    /\ UNCHANGED <<pumpVars, decoded>>

\* (A slip: every database error is raised again.)
Reraised_Always(err) == TRUE

\* if "already exists" not in str(e): raise, client.py 56-58.
Reraised(err) == err # "exists"

\* except psycopg2.Error, client.py 56-58.
SlotExcept(c) ==
    /\ spc[c] = "except"
    /\ shist' = [shist EXCEPT ![c].swallowed = ~Reraised(shist[c].err)]
    /\ spc' = [spc EXCEPT ![c] = "finally"]
    /\ UNCHANGED <<conn, admin, start_lsn, slot, calls>>
    /\ UNCHANGED <<pumpVars, decoded>>

\* (A slip: the connection is closed only when no error is in flight.)
Closed_UnlessError(a, err) ==
    IF err # "none" THEN a ELSE [st |-> "closed", closes |-> a.closes + 1]

\* self._conn.close(), client.py 60, whatever the path into the finally.
Closed(a, err) == [st |-> "closed", closes |-> a.closes + 1]

\* finally: self._conn.close(), client.py 59-60.
SlotClose(c) ==
    /\ spc[c] = "finally"
    /\ admin' = [admin EXCEPT ![c] = Closed(@, shist[c].err)]
    /\ spc' = [spc EXCEPT ![c] = "clear"]
    /\ UNCHANGED <<conn, start_lsn, slot, calls, shist>>
    /\ UNCHANGED <<pumpVars, decoded>>

\* self._conn = None, client.py 61; then create_slot returns, or the error
\* that was not swallowed propagates to the caller.
SlotReturn(c) ==
    /\ spc[c] = "clear"
    /\ conn' = [conn EXCEPT ![c] = 0]
    /\ Ended(c, shist[c],
             IF shist[c].err # "none" /\ ~shist[c].swallowed
             THEN "raised" ELSE "returned")
    /\ UNCHANGED <<admin, start_lsn, slot>>
    /\ UNCHANGED <<pumpVars, decoded>>

CreateSlot(c) ==
    \/ SlotConnect(c) \/ SlotSelect(c) \/ SlotCreate(c) \/ SlotParse(c)
    \/ SlotExcept(c) \/ SlotClose(c) \/ SlotReturn(c)

\* create_slot and the pump of one client.
NextSlot ==
    \/ \E cb \in {"none", "fn"} : Start(cb)
    \/ Stop
    \/ StopJoined
    \/ StopTimeout
    \/ \E w \in Workers : Worker(w)
    \/ \E c \in Clients : CreateSlot(c)

SpecSlot == InitSlot /\ [][NextSlot]_vars

\* create_slot of several clients.
NextRace == \E c \in Clients : CreateSlot(c)

SpecRace == InitRace /\ [][NextRace]_vars

\* ------------------------------------------------- from_dict on its inputs
MaxCols == 2         \* column arrays have 0..MaxCols entries

TopKeys == {"columnnames", "columntypes", "columnvalues"}

OldKeys == {"keynames", "keytypes", "keyvalues"}

\* Arrays of n entries under the keys ks: mutually aligned.  The i-th
\* entry of the array under key k is the pair <<k, i>>, so that arrays
\* under different keys differ.
Aligned(ks, n) == [k \in ks |-> [i \in 1..n |-> <<k, i>>]]

\* The change objects handed to from_dict: kind present or missing, any
\* subset of the top-level column arrays (aligned), and oldkeys absent,
\* null, or an object with any subset of the old-key arrays (aligned).
ChangeInputs ==
    LET heads == {[kind |-> "update", schema |-> "public", table |-> "users"],
                  [schema |-> "public", table |-> "users"]}
        tops == {Aligned(ks, n) : ks \in SUBSET TopKeys, n \in 0..MaxCols}
        olds == {EmptyDict, "oldkeys" :> None}
                  \cup {"oldkeys" :> Aligned(ks, n) :
                          ks \in SUBSET OldKeys, n \in 0..MaxCols}
    IN {h @@ t @@ o : h \in heads, t \in tops, o \in olds}

\* One change object about to be decoded; no pump, no create_slot.
InitDecode ==
    /\ InitClient(0) /\ InitSlots(0, FALSE)
    /\ \E change \in ChangeInputs :
          decoded = [input |-> change, done |-> FALSE, out |-> from_dict([change |-> <<>>])]

\* Wal2JsonOutput.from_dict({"change": [change]}), models.py 18-32.
Decode ==
    /\ ~decoded.done
    /\ decoded' = [decoded EXCEPT !.done = TRUE,
                                  !.out = from_dict([change |-> <<decoded.input>>])]
    /\ UNCHANGED <<pumpVars, slotVars>>

NextDecode == Decode

SpecDecode == InitDecode /\ [][NextDecode]_vars

\* ================================================================ claims
\* What the decode of client.py 101-103 yields for a payload.
Decoded(payload) ==
    IF payload = PEmpty \/ ~json_loads(payload).ok
    THEN [ok |-> FALSE, change |-> <<>>]
    ELSE from_dict(json_loads(payload).val)

\* The callback was called once with this message's position and decoded
\* batch, and returned normally.
Dispatched(m) ==
    /\ m.cb = "returned"
    /\ m.ncb = 1
    /\ m.cbpos = m.pos
    /\ m.cbchange = Decoded(m.payload).change

\* stop() returns in this step.
StopReturns == caller = "joining" /\ caller' = "idle"

\* ---------------------------------------------------------------- C1
\* C1 as stated: feedback for a message is sent only if the callback was
\* invoked with that message's position and decoded batch and returned
\* without raising; a message whose callback raised, or for which no
\* callback was invoked, gets no feedback.
C1_FeedbackOnlyAfterCallback ==
    \A w \in Workers :
        /\ msg[w].nfb > 0 => Dispatched(msg[w])
        /\ msg[w].cb \in {"none", "raised"} => msg[w].nfb = 0

\* C1 amended: feedback for a message is sent only if the message decoded
\* and either the worker was started with a falsy callback (the call is
\* skipped, client.py 104, and the message is acknowledged all the same) or
\* the callback was invoked with that message's position and decoded batch
\* and returned without raising; a message whose callback raised or that
\* failed to decode gets no feedback.
C1_FeedbackOnlyAfterHandOff ==
    \A w \in Workers :
        /\ msg[w].nfb > 0 =>
              /\ Decoded(msg[w].payload).ok
              /\ IF wcb[w] = "none"
                 THEN msg[w].cb = "none" /\ msg[w].ncb = 0
                 ELSE Dispatched(msg[w])
        /\ (msg[w].cb = "raised" \/ ~Decoded(msg[w].payload).ok) => msg[w].nfb = 0

\* A feedback has been sent after the callback returned.
C1_Witness ==
    \E w \in Workers : msg[w].nfb > 0 /\ msg[w].cb = "returned"

\* ---------------------------------------------------------------- C2
\* C2: after a message of a session fails to decode, no later feedback of
\* that session carries a position greater than or equal to that
\* message's position (the confirmed position never advances past an
\* unprocessed message).  Stated for the workers started with a callback.
C2_NoAckPastFailure ==
    \A w \in Workers :
        (wcb[w] # "none" /\ msg[w].nfb > 0 /\ hist[w].failpos # 0)
            => msg[w].fb[2] < hist[w].failpos

KindsPreserved(m) ==
    LET src == json_loads(m.payload).val["change"] IN
    /\ Len(m.cbchange) = Len(src)
    /\ \A i \in 1..Len(src) : m.cbchange[i].kind = src[i]["kind"]

\* One callback call and one feedback carrying the message's position as
\* write, flush and apply position.
HandledOnce(m) ==
    /\ Dispatched(m)
    /\ KindsPreserved(m)
    /\ m.nfb = 1
    /\ m.fb = <<m.pos, m.pos, m.pos>>

DecodeFailed(m) == m.payload # PEmpty /\ ~Decoded(m.payload).ok

\* No callback call and no feedback for a message that fails to decode.
C5_FailedNotHandled ==
    \A w \in Workers :
        DecodeFailed(msg[w]) =>
            /\ msg[w].cb = "none" /\ msg[w].ncb = 0
            /\ msg[w].nfb = 0 /\ msg[w].fb = <<>>
            /\ pc[w] \in {"process", "loop", "except"}

\* A valid message that arrives after a decode failure of the same session
\* is decoded and dispatched, and acknowledged once the callback has
\* returned and the feedback was sent without a fault, as in a session
\* without failures.
C5_LaterHandled ==
    \A w \in Workers :
        (/\ hist[w].failpos # 0
         /\ msg[w].payload # PEmpty
         /\ Decoded(msg[w].payload).ok) =>
            /\ (wcb[w] # "none" /\ pc[w] # "process") =>
                   msg[w].ncb = 1 /\ msg[w].cbpos = msg[w].pos
            /\ (pc[w] = "loop" /\ msg[w].cb # "raised" /\ ~msg[w].fbfault) =>
                   msg[w].nfb = 1 /\ msg[w].fb = <<msg[w].pos, msg[w].pos, msg[w].pos>>

\* The step after a decode failure leaves the loop only when the running
\* flag is false: the failure itself does not terminate the pump.
C5_PumpGoesOn ==
    \A w \in Workers :
        (DecodeFailed(msg[w]) /\ pc[w] \in {"process", "except"} /\ pc'[w] # pc[w])
            => (pc'[w] \in {"loop", "except"} \/ ~running)

\* C5: a message that fails to decode (not JSON, no "change", a change
\* lacking kind, schema or table) causes no callback call and no feedback
\* for that message and does not terminate the pump, and later valid
\* messages of the session are still decoded, dispatched and acknowledged.
C5_DecodeErrorIsolated ==
    /\ [](C5_FailedNotHandled /\ C5_LaterHandled)
    /\ [][C5_PumpGoesOn]_vars

\* A valid message has been acknowledged after a decode failure of the
\* same session.
C5_Witness ==
    \E w \in Workers :
        /\ hist[w].failpos # 0
        /\ msg[w].payload = PValid
        /\ msg[w].cb = "returned"
        /\ msg[w].nfb = 1

\* ---------------------------------------------------------------- C6
\* C6: at most one pump worker is alive at any time; a start issued while a
\* worker is running launches no second worker.
C6_AtMostOneWorker == Cardinality({w \in Workers : Alive(w)}) <= 1

\* ---------------------------------------------------------------- C7
\* C7 as stated: whenever stop returns, the worker it waited for is no
\* longer inside its loop.
C7_StopAfterLoopExit ==
    [][StopReturns => pc[thread] \notin InLoop]_vars

\* C7 amended: whenever stop returns, the running flag is false and the
\* handle is cleared, and either the worker it waited for has finished, or
\* the bounded wait (5) has elapsed while the worker was inside a call of
\* unbounded duration (a callback in flight, connect, start_replication,
\* send_feedback) and the worker is still running.
C7_StopJoinedOrTimedOut ==
    [][StopReturns =>
          /\ ~running' /\ thread' = 0
          /\ (pc'[thread] = "done" \/ pc'[thread] \in SlowOps)]_vars

\* stop has returned while the callback of the only worker is in flight.
C7_Witness ==
    /\ caller = "idle" /\ thread = 0 /\ ~running /\ starts = 0
    /\ \E w \in Workers : pc[w] = "callback"

\* ---------------------------------------------------------------- C8
\* C8: if stop is called while the pump is idling (the worker is polling,
\* no message arrives, no callback is in flight), then when stop returns
\* the worker thread has finished and its replication session is closed.
C8_IdleStopClosesSession ==
    [][(StopReturns /\ idleStop) =>
          (pc[thread] = "done" /\ session[thread].st = "closed")]_vars

\* ---------------------------------------------------------------- C9
\* C9, as the final result of the run: once stop has cleared the flag and
\* every worker has run to its end, every replication session that was
\* opened is closed.
C9_StoppedWorkersCloseSessions ==
    (/\ ~running /\ caller = "idle"
     /\ \A w \in Workers : ~Alive(w))
        => \A s \in Workers : session[s].st # "open"

\* --------------------------------------------------------------- C10
\* C10: a session opened by a worker is closed exactly once when that
\* worker ends, and no worker closes a session it did not open.
C10_ClosedOnceByOwner ==
    \A w \in Workers :
        /\ ~session[w].foreign
        /\ session[w].closes <= 1
        /\ (pc[w] = "done" /\ session[w].st # "none") =>
               (session[w].st = "closed" /\ session[w].closes = 1)

\* --------------------------------------------------------------- C11
\* C11: while the running flag is true a transport fault does not end the
\* pump, whether it is raised by the poll for the next message or by
\* send_feedback: a worker leaves its loop only when the flag is false.
C11_FaultsRetriedWhileRunning ==
    [][\A w \in Workers :
          (pc[w] \in InLoop /\ pc'[w] \notin InLoop) => ~running]_vars

\* --------------------------------------------------------------- C12
\* C12: when a client has called create_slot twice (the slot is never
\* dropped) and no call met a failure other than "already exists", the
\* calls issued exactly one creation request in all if the first call found
\* no row for the slot name (none if the slot was already registered
\* before the first call), and the second call returned without error.
C12_OneCreationRequest ==
    \A c \in Clients :
        (shist[c].ncalls >= 2 /\ spc[c] = "idle" /\ ~shist[c].fault) =>
            /\ shist[c].outcome = "returned"
            /\ shist[c].nreq = (IF shist[c].first = "norow" THEN 1 ELSE 0)
            /\ shist[c].found = "row" /\ ~shist[c].req

\* A client has called create_slot twice, the first call having found no
\* row and issued the creation request.
C12_Witness ==
    \E c \in Clients :
        /\ shist[c].ncalls = 2 /\ spc[c] = "idle" /\ ~shist[c].fault
        /\ shist[c].first = "norow" /\ shist[c].nreq = 1
        /\ slot.exists /\ slot.creations = 1

\* --------------------------------------------------------------- C13
\* C13: whenever the most recent create_slot call of a client found the
\* slot already registered, that call issued no creation request and the
\* client holds no start position afterwards, and a stream opened by its
\* pump after such a call is opened without a start position.
C13_NoStartPositionWhenRegistered ==
    /\ \A c \in Clients :
          FoundRegistered(c) => (~shist[c].req /\ start_lsn[c] = NoLsn)
    /\ \A s \in Workers : session[s].resumed => session[s].from = NoLsn

\* --------------------------------------------------------------- C14
\* The most recent call of the client found no row and its creation
\* request has been answered, without a failure other than "already
\* exists".
Requested(c) ==
    /\ shist[c].found = "norow" /\ shist[c].req
    /\ shist[c].err # "other"

\* The most recent create_slot call of the client has ended.
CallEnded(c) == spc[c] = "idle" /\ shist[c].ncalls > 0

\* C14: when two clients race create_slot for the same slot name (both
\* found no row and both issued a creation request), exactly one slot is
\* created, by at most one of them, and neither call raises: the error
\* "already exists" is swallowed; a call raises exactly when it met
\* another database error.
C14_RaceCreatesOneSlot ==
    /\ slot.creations <= 1
    /\ \A c, d \in Clients :
          (c # d /\ Requested(c) /\ Requested(d)) =>
              /\ slot.exists /\ slot.creations = 1
              /\ ~(shist[c].created /\ shist[d].created)
              /\ ~shist[c].created => shist[c].err = "exists"
    /\ \A c \in Clients :
          CallEnded(c) =>
              /\ shist[c].err = "exists" =>
                    (shist[c].swallowed /\ shist[c].outcome = "returned")
              /\ shist[c].outcome = "raised" <=> shist[c].err = "other"

\* Two clients have raced: both found no row, both issued a creation
\* request, one created the slot, the other's error was swallowed, and
\* both calls have returned.
C14_Witness ==
    \E c, d \in Clients :
        /\ c # d /\ CallEnded(c) /\ CallEnded(d)
        /\ Requested(c) /\ Requested(d)
        /\ shist[c].created /\ shist[d].err = "exists"
        /\ shist[c].outcome = "returned" /\ shist[d].outcome = "returned"

\* --------------------------------------------------------------- C15
\* C15: after create_slot has exited by any path (slot existed, slot
\* created, swallowed error, propagated error), the administrative
\* connection the call opened has been closed exactly once and the client
\* holds no reference to it.
C15_AdminConnectionReleased ==
    \A c \in Clients :
        CallEnded(c) =>
            /\ conn[c] = 0
            /\ shist[c].opened = 1 => admin[c] = [st |-> "closed", closes |-> 1]

\* A call has ended with a propagated database error after it had opened
\* its connection.
C15_Witness ==
    \E c \in Clients :
        /\ CallEnded(c) /\ shist[c].opened = 1
        /\ shist[c].err = "other" /\ shist[c].outcome = "raised"
        /\ admin[c].st = "closed"

\* --------------------------------------------------------------- C16
\* A message whose callback was in flight when stop cleared the flag is
\* neither abandoned nor followed by another: the worker is still at that
\* message or back at the head of the loop, and when it is back after the
\* callback returned normally (and send_feedback did not fail) the
\* feedback of that message has been sent.
C16_MessageCompleted ==
    \A w \in Workers :
        msg[w].cancelled =>
            /\ pc[w] \in {"callback", "send_feedback", "except", "loop"}
            /\ msg[w].ncb = 1 /\ msg[w].cbpos = msg[w].pos
            /\ (pc[w] = "loop" /\ msg[w].cb = "returned" /\ ~msg[w].fbfault) =>
                   (msg[w].nfb = 1 /\ msg[w].fb = <<msg[w].pos, msg[w].pos, msg[w].pos>>)

\* The steps of the worker on such a message: the feedback follows the
\* callback's normal return, and the step after the message is the exit
\* from the loop, never a poll or a dispatch.
C16_ThenExit ==
    \A w \in Workers :
        (msg[w].cancelled /\ pc'[w] # pc[w]) =>
            /\ (pc[w] = "callback" /\ msg'[w].cb = "returned") =>
                   pc'[w] = "send_feedback"
            /\ pc[w] = "send_feedback" => pc'[w] \in {"loop", "except"}
            /\ pc[w] \in {"loop", "except"} => pc'[w] = "finally"

\* C16: cancellation is never mid-message.  If stop clears the running
\* flag while a callback is in flight, the worker completes that message
\* (sending its feedback when the callback returns normally) and only then
\* observes the flag and exits, without polling for or dispatching another
\* message.
C16_NoMidMessageCancellation ==
    /\ []C16_MessageCompleted
    /\ [][C16_ThenExit]_vars

\* --------------------------------------------------------------- C17
\* The worker at the head of the loop after an iteration without a
\* payload: no callback call and no feedback were made in it.
C17_NothingHandled ==
    \A w \in Workers :
        (pc[w] \in {"loop", "read"} /\ msg[w].payload = PEmpty) =>
            /\ msg[w].cb = "none" /\ msg[w].ncb = 0
            /\ msg[w].nfb = 0 /\ msg[w].fb = <<>>

\* The steps of such an iteration: a poll that returns no message, and
\* the handling of a message with an empty payload, change nothing but the
\* worker's position, which is the head of the loop again; the session
\* and the last feedback stay what they were.
C17_FrameOfIdleStep ==
    \A w \in Workers :
        /\ (pc[w] = "read" /\ pc'[w] = "loop") =>
              /\ msg'[w] = msg[w] /\ hist'[w] = hist[w]
              /\ session' = session /\ stream' = stream
              /\ replication_conn' = replication_conn
        /\ (pc[w] = "process" /\ msg[w].payload = PEmpty /\ pc'[w] # pc[w]) =>
              /\ pc'[w] = "loop"
              /\ msg'[w] = msg[w] /\ hist'[w] = hist[w]
              /\ session' = session /\ stream' = stream
              /\ replication_conn' = replication_conn

\* C17: a pump iteration in which the poll returns no message, or a
\* message with an empty payload, invokes no callback and sends no
\* feedback, leaves the session open, and goes back to the head of the loop.
C17_IdleIterationFrame ==
    /\ []C17_NothingHandled
    /\ [][C17_FrameOfIdleStep]_vars

\* A message with an empty payload has been handled after an earlier
\* message was acknowledged.
C17_Witness ==
    \E w \in Workers :
        /\ pc[w] = "loop" /\ msg[w].pos > 0 /\ msg[w].payload = PEmpty
        /\ msg[w].nfb = 0 /\ hist[w].lastfb[2] > 0
        /\ SessionOpen(cur[w])

\* --------------------------------------------------------------- C18
\* from_dict has decoded the change object: the record it made of it.
DecodedRecord == decoded.out.change[1]

HasDecoded == decoded.done /\ decoded.out.ok

\* C18: for every change object decoded by from_dict whose supplied
\* top-level column arrays are mutually aligned and whose old-key arrays
\* are mutually aligned (some, all or none of them supplied), the record
\* has as many column names as column types as column values.
C18_ColumnArraysAligned ==
    HasDecoded =>
        /\ Len(DecodedRecord.columnnames) = Len(DecodedRecord.columntypes)
        /\ Len(DecodedRecord.columntypes) = Len(DecodedRecord.columnvalues)

\* --------------------------------------------------------------- C19
\* C19: for a decoded change object that has oldkeys with keynames,
\* keytypes and keyvalues and no top-level column array, the record's
\* column arrays equal the old-key arrays; and oldkeys is carried through
\* unchanged whenever the change object has it, wherever the column arrays
\* came from.
C19_OldKeyFallback ==
    HasDecoded =>
        LET change == decoded.input IN
        /\ (/\ DOMAIN change \cap TopKeys = {}
            /\ "oldkeys" \in DOMAIN change
            /\ OldKeys \subseteq DOMAIN change["oldkeys"]) =>
               /\ DecodedRecord.columnnames = change["oldkeys"]["keynames"]
               /\ DecodedRecord.columntypes = change["oldkeys"]["keytypes"]
               /\ DecodedRecord.columnvalues = change["oldkeys"]["keyvalues"]
        /\ "oldkeys" \in DOMAIN change =>
               DecodedRecord.oldkeys = change["oldkeys"]
        /\ "oldkeys" \notin DOMAIN change => DecodedRecord.oldkeys = None

\* A change object with the three old-key arrays (not empty) and no
\* top-level column array has been decoded.
C19_Witness ==
    /\ HasDecoded
    /\ DOMAIN decoded.input \cap TopKeys = {}
    /\ "oldkeys" \in DOMAIN decoded.input
    /\ OldKeys \subseteq DOMAIN decoded.input["oldkeys"]
    /\ Len(decoded.input["oldkeys"]["keynames"]) = MaxCols
    /\ DecodedRecord.columnnames = decoded.input["oldkeys"]["keynames"]

\* --------------------------------------------------------------- C20
\* A worker that has ended while the running flag is true has ended on a
\* fatal error (connect, start_replication or a poll raised): the session
\* it opened, if any, is closed, once; the flag is still true and the
\* handle is still set.
C20_DeadWorkerFlagTrue ==
    \A w \in Workers :
        (pc[w] = "done" /\ running) =>
            /\ thread # 0
            /\ session[w].st \in {"none", "closed"}
            /\ session[w].st = "closed" => session[w].closes = 1

\* No step of a worker touches the running flag or the handle: only stop
\* clears them.
C20_WorkerLeavesFlag ==
    \A w \in Workers :
        (pc[w] # "unstarted" /\ pc'[w] # pc[w]) =>
            (running' = running /\ thread' = thread)

\* C20: if the pump worker terminates because of a fatal error, the
\* replication session it opened is closed, but the running flag remains
\* true and the worker handle remains set until stop is called: a true
\* running flag does not imply a live worker.
C20_FatalErrorLeavesRunning ==
    /\ []C20_DeadWorkerFlagTrue
    /\ [][C20_WorkerLeavesFlag]_vars

====
